---- MODULE Spec2Model ----
(***************************************************************************)
(* Orders backend (src/main.py): the order handlers list_orders,           *)
(* get_order, update_order_status and seed_orders over one document        *)
(* collection, and the serializer serialize_id.                            *)
(*                                                                         *)
(* A Python str is a sequence of one-character strings, a Python value is  *)
(* a record [t |-> type, v |-> payload], a dict is a function from keys    *)
(* (strs) to values.  The collection is the sequence of its documents in   *)
(* insertion (natural) order.  Each store call of a handler is one atomic  *)
(* step; the handlers of concurrent requests interleave between calls.     *)
(***************************************************************************)
EXTENDS Integers, Sequences, FiniteSets, TLC

(* ------------------------------ bounds ------------------------------- *)

\* seed_orders requests accepted during a run
MaxSeeds == 1

\* update_order_status requests that reach their write during a run
MaxUpdates == 2

\* the clock's last instant; the clock may stand still between two calls
MaxClock == 1

\* the counter part of the first generated ObjectId
FirstOid == 10

(* ------------------------------ strings ------------------------------ *)

\* the printable ASCII characters in code order, from code 32
Ascii == <<" ","!","\"","#","$","%","&","'","(",")","*","+",",","-",".","/","0","1","2","3","4","5","6","7","8","9",":",";","<","=",">","?","@","A","B","C","D","E","F","G","H","I","J","K","L","M","N","O","P","Q","R","S","T","U","V","W","X","Y","Z","[","\\","]","^","_","grave","a","b","c","d","e","f","g","h","i","j","k","l","m","n","o","p","q","r","s","t","u","v","w","x","y","z","{","|","}","~">>

Chars == {Ascii[i] : i \in 1..Len(Ascii)}

CodeOf == [c \in Chars |-> 31 + (CHOOSE i \in 1..Len(Ascii) : Ascii[i] = c)]

\* ord(c)
Code(c) == CodeOf[c]

Chr(n) == Ascii[n - 31]

IsUpper(c) == Code(c) >= Code("A") /\ Code(c) <= Code("Z")

LowerOf == [c \in Chars |-> IF IsUpper(c) THEN Chr(Code(c) + (Code("a") - Code("A"))) ELSE c]

IsLower(c) == Code(c) >= Code("a") /\ Code(c) <= Code("z")

UpperOf == [c \in Chars |-> IF IsLower(c) THEN Chr(Code(c) - (Code("a") - Code("A"))) ELSE c]

\* str.upper() of one character
Upper(c) == UpperOf[c]

\* str.lower() of one character
Lower(c) == LowerOf[c]

RECURSIVE StrLess(_, _)
\* s < t for two strs: lexicographic by character code
StrLess(s, t) ==
    IF t = <<>> THEN FALSE
    ELSE IF s = <<>> THEN TRUE
    ELSE IF Head(s) = Head(t) THEN StrLess(Tail(s), Tail(t))
    ELSE Code(Head(s)) < Code(Head(t))

RECURSIVE lstrip(_, _)
\* str.lstrip(c): every leading c is dropped
lstrip(s, c) == IF s # <<>> /\ Head(s) = c THEN lstrip(Tail(s), c) ELSE s

startswith(s, c) == s # <<>> /\ Head(s) = c

DecDigits == <<"0","1","2","3","4","5","6","7","8","9">>

RECURSIVE Decimal(_)
\* the decimal digits of a natural number
Decimal(n) ==
    IF n < 10 THEN <<DecDigits[n + 1]>>
    ELSE Decimal(n \div 10) \o <<DecDigits[(n % 10) + 1]>>

(* ------------------------------ values ------------------------------- *)

NoneV == [t |-> "none", v |-> 0]
StrV(s) == [t |-> "str", v |-> s]
IntV(n) == [t |-> "int", v |-> n]
\* a float with one decimal place, held in tenths
FloatV(tenths) == [t |-> "float", v |-> tenths]
\* a bson ObjectId: its 12 bytes as 24 lower-case hex digits
OidV(h) == [t |-> "oid", v |-> h]
\* a datetime: an instant of UTC time
DtV(n) == [t |-> "dt", v |-> n]
ListV(s) == [t |-> "list", v |-> s]
DictV(f) == [t |-> "dict", v |-> f]

\* an Optional[str] query parameter
Absent == [some |-> FALSE, v |-> <<>>]
Given(s) == [some |-> TRUE, v |-> s]

\* Python truthiness of an Optional[str]: None and "" are falsy
Truthy(o) == o.some /\ o.v # <<>>

K__id == <<"_","i","d">>
K_id == <<"i","d">>
K_order_number == <<"o","r","d","e","r","_","n","u","m","b","e","r">>
K_customer_name == <<"c","u","s","t","o","m","e","r","_","n","a","m","e">>
K_email == <<"e","m","a","i","l">>
K_status == <<"s","t","a","t","u","s">>
K_total_amount == <<"t","o","t","a","l","_","a","m","o","u","n","t">>
K_items == <<"i","t","e","m","s">>
K_created_at == <<"c","r","e","a","t","e","d","_","a","t">>
K_updated_at == <<"u","p","d","a","t","e","d","_","a","t">>
K_product_name == <<"p","r","o","d","u","c","t","_","n","a","m","e">>
K_quantity == <<"q","u","a","n","t","i","t","y">>
K_price == <<"p","r","i","c","e">>

(* ----------------------------- ObjectId ------------------------------ *)

HexDigits == <<"0","1","2","3","4","5","6","7","8","9","a","b","c","d","e","f">>

\* the length of an ObjectId's hex form (12 bytes)
OidHexLen == 24

IsHex(c) == \E i \in 1..Len(HexDigits) : HexDigits[i] = Lower(c)

\* ObjectId(s) raises InvalidId unless s is 24 hex digits of either case
ObjectIdValid(s) == Len(s) = OidHexLen /\ \A i \in 1..Len(s) : IsHex(s[i])

\* ObjectId(s) of a valid s: the bytes the hex digits spell
ObjectId(s) == OidV([i \in 1..Len(s) |-> Lower(s[i])])

RECURSIVE ToHex(_, _)
ToHex(n, width) ==
    IF width = 0 THEN <<>>
    ELSE ToHex(n \div Len(HexDigits), width - 1) \o <<HexDigits[(n % Len(HexDigits)) + 1]>>

\* the n-th ObjectId the driver generates
NewObjectId(n) == OidV(ToHex(n, OidHexLen))

\* str(v) of an _id value: an ObjectId's lower-case hex form, a str itself
str(val) == val.v

(* ---------------------------- serializer ----------------------------- *)

UtcOffset == <<"+","0","0",":","0","0">>

\* v.astimezone(timezone.utc).isoformat(): the instant, then the UTC offset
isoformat(n) == Decimal(n) \o UtcOffset

KeyErrorV == [t |-> "KeyError", v |-> 0]

\* "not doc": None and the empty dict
Falsy(doc) == doc.t = "none" \/ (doc.t = "dict" /\ DOMAIN doc.v = {})

\* the dict object after serialize_id(doc), which is also what it returns;
\* KeyErrorV when doc.pop("_id") raises (the object is then as it was)
serialize_id(doc) ==
    IF Falsy(doc) THEN doc
    ELSE IF K__id \notin DOMAIN doc.v THEN KeyErrorV
    ELSE LET keys == (DOMAIN doc.v \ {K__id}) \cup {K_id}
             d1 == [k \in keys |-> IF k = K_id THEN StrV(str(doc.v[K__id])) ELSE doc.v[k]]
         IN  DictV([k \in keys |->
                 IF d1[k].t = "dt" THEN StrV(isoformat(d1[k].v)) ELSE d1[k]])

(* ------------------------------ filter ------------------------------- *)

\* the characters the modelled patterns give a meaning other than themselves
RegexOpen == "("
RegexClose == ")"

RECURSIVE Unclosed(_, _)
\* the count of "(" of p not yet closed, -1 once a ")" closes nothing
Unclosed(p, depth) ==
    IF depth < 0 THEN depth
    ELSE IF p = <<>> THEN depth
    ELSE IF Head(p) = RegexOpen THEN Unclosed(Tail(p), depth + 1)
    ELSE IF Head(p) = RegexClose THEN Unclosed(Tail(p), depth - 1)
    ELSE Unclosed(Tail(p), depth)

\* the store compiles the pattern; unbalanced parentheses do not compile
RegexCompiles(p) == Unclosed(p, 0) = 0

RECURSIVE MatchHere(_, _)
\* pattern p matches a prefix of s, under option i; "." is any character,
\* every other character of the modelled patterns stands for itself
MatchHere(p, s) ==
    IF p = <<>> THEN TRUE
    ELSE IF s = <<>> THEN FALSE
    ELSE /\ Head(p) = "." \/ Lower(Head(p)) = Lower(Head(s))
         /\ MatchHere(Tail(p), Tail(s))

\* {"$regex": p, "$options": "i"} on a str: an unanchored search, "^"
\* anchoring it to the start
RegexSearch(p, s) ==
    IF startswith(p, "^") THEN MatchHere(Tail(p), s)
    ELSE \E j \in 1..(Len(s) + 1) : MatchHere(p, SubSeq(s, j, Len(s)))

\* filter_query as list_orders builds it
filter_query(q, status) ==
    [has_or |-> Truthy(q), regex |-> q.v,
     has_status |-> Truthy(status), status |-> status.v]

FilterCompiles(fq) == fq.has_or => RegexCompiles(fq.regex)

FieldRegex(doc, k, p) ==
    k \in DOMAIN doc.v /\ doc.v[k].t = "str" /\ RegexSearch(p, doc.v[k].v)

\* the store's match of one document against filter_query
Matches(fq, doc) ==
    /\ fq.has_or =>
          \/ FieldRegex(doc, K_order_number, fq.regex)
          \/ FieldRegex(doc, K_customer_name, fq.regex)
          \/ FieldRegex(doc, K_email, fq.regex)
    /\ fq.has_status =>
          K_status \in DOMAIN doc.v /\ doc.v[K_status] = StrV(fq.status)

RECURSIVE find(_, _)
\* collection.find(fq): the matching documents in natural order
find(coll, fq) ==
    IF coll = <<>> THEN <<>>
    ELSE IF Matches(fq, Head(coll)) THEN <<Head(coll)>> \o find(Tail(coll), fq)
    ELSE find(Tail(coll), fq)

\* collection.count_documents(fq)
count_documents(coll, fq) == Len(find(coll, fq))

(* ---------------------------- sort, page ----------------------------- *)

\* the store's comparison order of the types
TypeRank(val) ==
    CASE val.t = "none" -> 1
      [] val.t \in {"int", "float"} -> 2
      [] val.t = "str" -> 3
      [] val.t = "dict" -> 4
      [] val.t = "list" -> 5
      [] val.t = "oid" -> 6
      [] val.t = "dt" -> 7
      [] OTHER -> 8

Tenths(val) == IF val.t = "int" THEN 10 * val.v ELSE val.v

\* a sorts before b; lists and dicts are not ordered among themselves here
ValLess(a, b) ==
    IF TypeRank(a) # TypeRank(b) THEN TypeRank(a) < TypeRank(b)
    ELSE CASE a.t \in {"int", "float"} -> Tenths(a) < Tenths(b)
           [] a.t \in {"str", "oid"} -> StrLess(a.v, b.v)
           [] a.t = "dt" -> a.v < b.v
           [] OTHER -> FALSE

\* the sort key: a missing field sorts as null
SortKey(doc, field) == IF field \in DOMAIN doc.v THEN doc.v[field] ELSE NoneV

Before(a, b, field, direction) ==
    IF direction = 1 THEN ValLess(SortKey(a, field), SortKey(b, field))
    ELSE ValLess(SortKey(b, field), SortKey(a, field))

RECURSIVE sort(_, _, _)
\* cursor.sort(field, direction): documents with equal keys keep their
\* natural order
sort(docs, field, direction) ==
    IF docs = <<>> THEN <<>>
    ELSE LET rest == sort(SubSeq(docs, 1, Len(docs) - 1), field, direction)
             d == docs[Len(docs)]
             n == Cardinality({i \in 1..Len(rest) : ~Before(d, rest[i], field, direction)})
         IN  SubSeq(rest, 1, n) \o <<d>> \o SubSeq(rest, n + 1, Len(rest))

\* skip that passes over one document more
skip_one_more(docs, n) == SubSeq(docs, n + 2, Len(docs))

\* cursor.skip(n)
skip(docs, n) == SubSeq(docs, n + 1, Len(docs))

\* limit that lets one document more through
limit_one_more(docs, n) == SubSeq(docs, 1, IF n + 1 < Len(docs) THEN n + 1 ELSE Len(docs))

\* cursor.limit(n), n > 0
limit(docs, n) == SubSeq(docs, 1, IF n < Len(docs) THEN n ELSE Len(docs))

sort_field(sortspec) == lstrip(sortspec, "-")

direction(sortspec) == IF startswith(sortspec, "-") THEN -1 ELSE 1

\* the cursor of list_orders, read to its end and serialized
list_items(coll, fq, sortspec, page, page_size) ==
    LET docs == limit(skip(sort(find(coll, fq), sort_field(sortspec), direction(sortspec)),
                           (page - 1) * page_size), page_size)
    IN  [i \in 1..Len(docs) |-> serialize_id(docs[i])]

(* ------------------------------- seed -------------------------------- *)

\* demo_orders as insert_many sends it: built at instant now, the driver
\* giving the documents the ObjectIds n, n+1, n+2
demo_orders(now, n) == <<
    DictV(
        (K__id :> NewObjectId(n + 0)) @@
        (K_order_number :> StrV(<<"O","R","D","-","1","0","0","1">>)) @@
        (K_customer_name :> StrV(<<"A","v","a"," ","N","g","u","y","e","n">>)) @@
        (K_email :> StrV(<<"a","v","a","@","e","x","a","m","p","l","e",".","c","o","m">>)) @@
        (K_status :> StrV(<<"p","e","n","d","i","n","g">>)) @@
        (K_total_amount :> FloatV(895)) @@
        (K_items :> ListV(<<
                DictV((K_product_name :> StrV(<<"V","e","l","v","e","t"," ","M","a","t","t","e"," ","L","i","p","s","t","i","c","k">>)) @@ (K_quantity :> IntV(1)) @@ (K_price :> FloatV(245))),
                DictV((K_product_name :> StrV(<<"H","y","d","r","a"," ","G","l","o","w"," ","S","e","r","u","m">>)) @@ (K_quantity :> IntV(1)) @@ (K_price :> FloatV(650)))>>)) @@
        (K_created_at :> DtV(now)) @@
        (K_updated_at :> DtV(now))),
    DictV(
        (K__id :> NewObjectId(n + 1)) @@
        (K_order_number :> StrV(<<"O","R","D","-","1","0","0","2">>)) @@
        (K_customer_name :> StrV(<<"L","i","a","m"," ","P","a","t","e","l">>)) @@
        (K_email :> StrV(<<"l","i","a","m","@","e","x","a","m","p","l","e",".","c","o","m">>)) @@
        (K_status :> StrV(<<"p","r","o","c","e","s","s","i","n","g">>)) @@
        (K_total_amount :> FloatV(420)) @@
        (K_items :> ListV(<<
                DictV((K_product_name :> StrV(<<"S","i","l","k"," ","F","i","n","i","s","h"," ","F","o","u","n","d","a","t","i","o","n">>)) @@ (K_quantity :> IntV(1)) @@ (K_price :> FloatV(420)))>>)) @@
        (K_created_at :> DtV(now)) @@
        (K_updated_at :> DtV(now))),
    DictV(
        (K__id :> NewObjectId(n + 2)) @@
        (K_order_number :> StrV(<<"O","R","D","-","1","0","0","3">>)) @@
        (K_customer_name :> StrV(<<"M","a","y","a"," ","K","h","a","n">>)) @@
        (K_email :> StrV(<<"m","a","y","a","@","e","x","a","m","p","l","e",".","c","o","m">>)) @@
        (K_status :> StrV(<<"s","h","i","p","p","e","d">>)) @@
        (K_total_amount :> FloatV(1200)) @@
        (K_items :> ListV(<<
                DictV((K_product_name :> StrV(<<"R","a","d","i","a","n","t"," ","B","l","u","s","h"," ","P","a","l","e","t","t","e">>)) @@ (K_quantity :> IntV(1)) @@ (K_price :> FloatV(550))),
                DictV((K_product_name :> StrV(<<"U","l","t","r","a"," ","D","e","f","i","n","e"," ","M","a","s","c","a","r","a">>)) @@ (K_quantity :> IntV(2)) @@ (K_price :> FloatV(325)))>>)) @@
        (K_created_at :> DtV(now)) @@
        (K_updated_at :> DtV(now)))>>

(* ------------------------------- state ------------------------------- *)

VARIABLES
    db_configured,  \* "db is not None"
    store,          \* the documents of db[ORDERS_COL], in natural order
    clock,          \* the instant datetime.now(timezone.utc) last returned
    seeds,          \* seed_orders requests that built their batch
    updates,        \* update_order_status requests that reached update_one
    lastWrite,      \* per ObjectId, the status of the last update_one applied
    req,            \* per client, the request it has in flight
    obj,            \* the dict object serialize_id is called on
    ret,            \* what the serialize_id calls on obj returned or raised, in order
    ncalls          \* serialize_id calls made on obj

appvars == <<db_configured, store, clock, seeds, updates, lastWrite, req>>
servars == <<obj, ret, ncalls>>
vars == <<db_configured, store, clock, seeds, updates, lastWrite, req, obj, ret, ncalls>>

\* the clients whose requests run concurrently: both update, the first also
\* lists and fetches, the second also seeds
Clients == {"a", "b"}
Readers == {"a"}
Seeders == {"b"}

EmptyFn == [x \in {} |-> NoneV]

(* ------------------------------- inputs ------------------------------ *)

\* the query parameters of the list requests of the concurrent clients
ListInputs ==
    [q |-> {Absent},
     status |-> {Absent, Given(<<"s","h","i","p","p","e","d">>)},
     sort |-> {<<"-","c","r","e","a","t","e","d","_","a","t">>},
     page |-> {1, 2},
     page_size |-> {2, 100}]

\* the query parameters of the list requests of a client that is alone
WideListInputs ==
    [q |-> {Absent, Given(<<>>), Given(<<"m","a","y","a">>), Given(<<"M","A","Y","A">>), Given(<<"a",".","a">>),
            Given(<<"^","a","v","a">>), Given(<<"(">>)},
     status |-> {Absent, Given(<<>>), Given(<<"s","h","i","p","p","e","d">>), Given(<<"S","h","i","p","p","e","d">>)},
     sort |-> {<<"-","c","r","e","a","t","e","d","_","a","t">>, <<"c","r","e","a","t","e","d","_","a","t">>, <<"o","r","d","e","r","_","n","u","m","b","e","r">>, <<"-","-","t","o","t","a","l","_","a","m","o","u","n","t">>, <<"i","d">>},
     page |-> {1, 2, 3},
     page_size |-> {1, 2, 100}]

\* the status values of the update requests
NewStatusInputs == {<<"d","e","l","i","v","e","r","e","d">>, <<"s","h","i","p","p","e","d">>}

\* the id of the second seeded order (ORD-1002) as returned and in upper
\* case, a well-formed id no order gets, and a string that is no id
IdInputs ==
    {ToHex(FirstOid + 1, OidHexLen),
     [i \in 1..OidHexLen |-> Upper(ToHex(FirstOid + 1, OidHexLen)[i])],
     ToHex(0, OidHexLen),
     <<"n","o","t","-","a","n","-","i","d">>}

(* ---------------------------- store calls ---------------------------- *)

MinOf(S) == CHOOSE i \in S : \A j \in S : i <= j

Having(coll, oid) == {i \in 1..Len(coll) : coll[i].v[K__id] = oid}

\* find_one with its filter left out: the first document
find_one_unfiltered(coll, oid) == IF coll = <<>> THEN NoneV ELSE coll[1]

\* collection.find_one({"_id": oid})
find_one(coll, oid) ==
    IF Having(coll, oid) = {} THEN NoneV ELSE coll[MinOf(Having(coll, oid))]

\* update_one({"_id": oid}, {"$set": {"status": status, "updated_at": now}}).matched_count
matched_count(coll, oid) == IF Having(coll, oid) = {} THEN 0 ELSE 1

\* update_one with updated_at left out of $set
update_one_status_only(coll, oid, status, now) ==
    IF Having(coll, oid) = {} THEN coll
    ELSE [coll EXCEPT ![MinOf(Having(coll, oid))] = DictV((K_status :> StrV(status)) @@ @.v)]

\* update_one with status left out of $set
update_one_time_only(coll, oid, status, now) ==
    IF Having(coll, oid) = {} THEN coll
    ELSE [coll EXCEPT ![MinOf(Having(coll, oid))] = DictV((K_updated_at :> DtV(now)) @@ @.v)]

\* the collection after that update_one
update_one(coll, oid, status, now) ==
    IF Having(coll, oid) = {} THEN coll
    ELSE [coll EXCEPT ![MinOf(Having(coll, oid))] =
            DictV((K_status :> StrV(status)) @@ (K_updated_at :> DtV(now)) @@ @.v)]

(* ----------------------------- requests ------------------------------ *)

Idle == [op |-> "idle", pc |-> "idle"]

\* a finished request: the HTTP status and body, and for the properties the
\* store calls it made (calls), whether one of them raised (failed), and
\* whether another request's write came between its own two store calls (raced)
Done(op, args, code, body, calls, failed, raced) ==
    [op |-> op, pc |-> "done", args |-> args, code |-> code, body |-> body,
     calls |-> calls, failed |-> failed, raced |-> raced]

\* what a write of another request does to the request r in flight: oid is the
\* document an update_one wrote, NoneV for an insert
Disturb(r, oid) ==
    IF r.pc = "find" THEN [r EXCEPT !.raced = TRUE]
    ELSE IF r.pc = "refetch" /\ ObjectId(r.args.order_id) = oid THEN [r EXCEPT !.raced = TRUE]
    ELSE r

\* req after client s moves to r, its store call having changed the store or not
Moved(s, r, wrote, oid) ==
    [c \in Clients |-> IF c = s THEN r ELSE IF wrote THEN Disturb(req[c], oid) ELSE req[c]]

\* a handler returns at once after its last store call: no other handler
\* takes a step while a finished request waits to be handed over
Quiet == \A c \in Clients : req[c].pc # "done"

\* datetime.now(timezone.utc): any instant from the last one returned on
Now == clock..MaxClock

(* ---------------------------- list_orders ---------------------------- *)

\* lines 99-116: the filter is built and count_documents is called
list_orders_count(s, In) ==
    /\ Quiet
    /\ req[s].pc = "idle"
    /\ \E q \in In.q, status \in In.status, sortspec \in In.sort,
          page \in In.page, page_size \in In.page_size, ok \in BOOLEAN :
          LET args == [q |-> q, status |-> status, sort |-> sortspec,
                       page |-> page, page_size |-> page_size]
              fq == filter_query(q, status)
          IN  req' = Moved(s,
                  IF ~db_configured
                  THEN Done("list", args, 500, "Database not configured", 0, FALSE, FALSE)
                  ELSE IF ~ok \/ ~FilterCompiles(fq)
                  THEN Done("list", args, 500, "Internal Server Error", 1, TRUE, FALSE)
                  ELSE [op |-> "list", pc |-> "find", args |-> args,
                        total |-> count_documents(store, fq), raced |-> FALSE],
                  FALSE, NoneV)
    /\ UNCHANGED <<db_configured, store, clock, seeds, updates, lastWrite, servars>>

\* lines 118-127: the cursor is read and the response built
list_orders_find(s) ==
    /\ Quiet
    /\ req[s].pc = "find"
    /\ \E ok \in BOOLEAN :
          LET a == req[s].args
          IN  req' = Moved(s,
                  IF ~ok
                  THEN Done("list", a, 500, "Internal Server Error", 2, TRUE, req[s].raced)
                  ELSE Done("list", a, 200,
                            [items |-> list_items(store, filter_query(a.q, a.status),
                                                  a.sort, a.page, a.page_size),
                             page |-> a.page, page_size |-> a.page_size,
                             total |-> req[s].total],
                            2, FALSE, req[s].raced),
                  FALSE, NoneV)
    /\ UNCHANGED <<db_configured, store, clock, seeds, updates, lastWrite, servars>>

(* ----------------------------- get_order ----------------------------- *)

\* get_order with the id handed to the store unparsed: what is no id matches
\* nothing
get_order_unparsed(args, coll, ok) ==
    IF ~db_configured
    THEN Done("get", args, 500, "Database not configured", 0, FALSE, FALSE)
    ELSE IF ~ok
    THEN Done("get", args, 400, "Invalid order id", 1, TRUE, FALSE)
    ELSE IF ~ObjectIdValid(args.order_id) \/ Falsy(find_one(coll, ObjectId(args.order_id)))
    THEN Done("get", args, 404, "Order not found", 1, FALSE, FALSE)
    ELSE Done("get", args, 200, serialize_id(find_one(coll, ObjectId(args.order_id))),
              1, FALSE, FALSE)

\* lines 132-140 on the collection coll, the store call succeeding (ok) or
\* raising; ObjectId(order_id) and find_one are inside one try
get_order_result(args, coll, ok) ==
    IF ~db_configured
    THEN Done("get", args, 500, "Database not configured", 0, FALSE, FALSE)
    ELSE IF ~ObjectIdValid(args.order_id)
    THEN Done("get", args, 400, "Invalid order id", 0, FALSE, FALSE)
    ELSE IF ~ok
    THEN Done("get", args, 400, "Invalid order id", 1, TRUE, FALSE)
    ELSE IF Falsy(find_one(coll, ObjectId(args.order_id)))
    THEN Done("get", args, 404, "Order not found", 1, FALSE, FALSE)
    ELSE Done("get", args, 200, serialize_id(find_one(coll, ObjectId(args.order_id))),
              1, FALSE, FALSE)

get_order(s) ==
    /\ Quiet
    /\ req[s].pc = "idle"
    /\ \E order_id \in IdInputs, ok \in BOOLEAN :
          req' = Moved(s, get_order_result([order_id |-> order_id], store, ok), FALSE, NoneV)
    /\ UNCHANGED <<db_configured, store, clock, seeds, updates, lastWrite, servars>>

(* ------------------------ update_order_status ------------------------ *)

\* lines 145-156 on the collection coll as it was before update_one
update_order_status_result(args, coll, ok) ==
    IF ~db_configured
    THEN Done("update", args, 500, "Database not configured", 0, FALSE, FALSE)
    ELSE IF ~ObjectIdValid(args.order_id)
    THEN Done("update", args, 400, "Invalid order id", 0, FALSE, FALSE)
    ELSE IF ~ok
    THEN Done("update", args, 500, "Internal Server Error", 1, TRUE, FALSE)
    ELSE IF matched_count(coll, ObjectId(args.order_id)) = 0
    THEN Done("update", args, 404, "Order not found", 1, FALSE, FALSE)
    ELSE [op |-> "update", pc |-> "refetch", args |-> args, raced |-> FALSE]

\* lines 145-156: the id is parsed and update_one is called
update_order_status_write(s) ==
    /\ Quiet
    /\ req[s].pc = "idle"
    /\ \E order_id \in IdInputs, status \in NewStatusInputs, now \in Now, ok \in BOOLEAN :
          LET args == [order_id |-> order_id, status |-> status]
              oid == ObjectId(order_id)
              calls == db_configured /\ ObjectIdValid(order_id)
              writes == calls /\ ok /\ matched_count(store, oid) # 0
          IN  /\ calls => updates < MaxUpdates
              /\ updates' = IF calls THEN updates + 1 ELSE updates
              /\ clock' = IF calls THEN now ELSE clock
              /\ store' = IF writes THEN update_one(store, oid, status, now) ELSE store
              /\ lastWrite' = IF writes THEN (oid.v :> status) @@ lastWrite ELSE lastWrite
              /\ req' = Moved(s, update_order_status_result(args, store, ok), writes, oid)
    /\ UNCHANGED <<db_configured, seeds, servars>>

\* lines 157-158: the document is fetched again and serialized
update_order_status_refetch(s) ==
    /\ Quiet
    /\ req[s].pc = "refetch"
    /\ \E ok \in BOOLEAN :
          LET a == req[s].args
          IN  req' = Moved(s,
                  IF ~ok
                  THEN Done("update", a, 500, "Internal Server Error", 2, TRUE, req[s].raced)
                  ELSE Done("update", a, 200,
                            serialize_id(find_one(store, ObjectId(a.order_id))),
                            2, FALSE, req[s].raced),
                  FALSE, NoneV)
    /\ UNCHANGED <<db_configured, store, clock, seeds, updates, lastWrite, servars>>

(* ---------------------------- seed_orders ---------------------------- *)

RECURSIVE insert_many(_, _)
\* the collection after insert_many(docs)
insert_many(coll, docs) ==
    IF docs = <<>> THEN coll ELSE insert_many(Append(coll, Head(docs)), Tail(docs))

\* lines 178-223: demo_orders is built, the driver gives each document its
\* ObjectId, and the batch is inserted
seed_orders(s) ==
    /\ Quiet
    /\ req[s].pc = "idle"
    /\ db_configured => seeds < MaxSeeds
    /\ \E now \in Now, ok \in BOOLEAN :
          LET args == [none |-> TRUE]
              docs == demo_orders(now, FirstOid + seeds * Len(demo_orders(0, 0)))
              wrote == db_configured /\ ok
          IN  /\ store' = IF wrote THEN insert_many(store, docs) ELSE store
              /\ seeds' = IF db_configured THEN seeds + 1 ELSE seeds
              /\ clock' = IF db_configured THEN now ELSE clock
              /\ req' = Moved(s,
                     IF ~db_configured
                     THEN Done("seed", args, 500, "Database not configured", 0, FALSE, FALSE)
                     ELSE IF ~ok
                     THEN Done("seed", args, 500, "Internal Server Error", 1, TRUE, FALSE)
                     ELSE Done("seed", args, 200, [inserted |-> Len(docs)], 1, FALSE, FALSE),
                     wrote, NoneV)
    /\ UNCHANGED <<db_configured, updates, lastWrite, servars>>

(* ------------------------------ the rest ----------------------------- *)

\* the response is handed to the client
Return(s) ==
    /\ req[s].pc = "done"
    /\ req' = [req EXCEPT ![s] = Idle]
    /\ UNCHANGED <<db_configured, store, clock, seeds, updates, lastWrite, servars>>

Init ==
    /\ db_configured \in BOOLEAN
    /\ store = <<>>
    /\ clock = 0
    /\ seeds = 0
    /\ updates = 0
    /\ lastWrite = EmptyFn
    /\ req = [c \in Clients |-> Idle]
    /\ obj = NoneV
    /\ ret = <<>>
    /\ ncalls = 0

Next ==
    \/ \E s \in Readers : list_orders_count(s, ListInputs)
    \/ \E s \in Readers : list_orders_find(s)
    \/ \E s \in Readers : get_order(s)
    \/ \E s \in Clients : update_order_status_write(s)
    \/ \E s \in Clients : update_order_status_refetch(s)
    \/ \E s \in Seeders : seed_orders(s)
    \/ \E s \in Clients : Return(s)

Spec == Init /\ [][Next]_vars

\* one client alone, listing with the wide inputs between seeds
Alone == "a"

NextList ==
    \/ list_orders_count(Alone, WideListInputs)
    \/ list_orders_find(Alone)
    \/ seed_orders(Alone)
    \/ Return(Alone)

SpecList == Init /\ [][NextList]_vars

(* ------------------------- serialize_id alone ------------------------ *)

\* serialize_id calls made on one object
MaxCalls == 2

K_customer_ref == <<"c","u","s","t","o","m","e","r","_","r","e","f">>

Opt(present, k, val) == IF present THEN (k :> val) ELSE EmptyFn

\* the raw records: with an ObjectId or a str as _id or none, a top-level
\* datetime or str or none, plain items or items holding a datetime or an
\* ObjectId or none, and a second ObjectId field or none
RawItems ==
    {demo_orders(0, 0)[1].v[K_items],
     ListV(<<DictV((K_product_name :> StrV(<<"S","e","r","u","m">>)) @@ (K_created_at :> DtV(3)))>>),
     ListV(<<DictV((K_product_name :> StrV(<<"S","e","r","u","m">>)) @@ (K__id :> NewObjectId(FirstOid + 1)))>>)}

RawDocs ==
    {NoneV, DictV(EmptyFn)} \cup
    {DictV(Opt(hasId, K__id, id) @@ Opt(hasAt, K_created_at, at)
           @@ Opt(hasItems, K_items, items) @@ Opt(hasRef, K_customer_ref, NewObjectId(0))
           @@ (K_status :> StrV(<<"p","e","n","d","i","n","g">>))) :
        hasId \in BOOLEAN, id \in {NewObjectId(FirstOid), StrV(<<"a","b","c">>)},
        hasAt \in BOOLEAN, at \in {DtV(0), DtV(12), StrV(<<"2","0","2","4">>)},
        hasItems \in BOOLEAN, items \in RawItems,
        hasRef \in BOOLEAN}

InitSer ==
    /\ db_configured = TRUE
    /\ store = <<>>
    /\ clock = 0
    /\ seeds = 0
    /\ updates = 0
    /\ lastWrite = EmptyFn
    /\ req = [c \in Clients |-> Idle]
    /\ obj \in RawDocs
    /\ ret = <<>>
    /\ ncalls = 0

\* serialize_id(obj): obj is changed in place and returned, or KeyError is
\* raised and obj is as it was
serialize_call ==
    /\ ncalls < MaxCalls
    /\ ncalls' = ncalls + 1
    /\ ret' = Append(ret, serialize_id(obj))
    /\ obj' = IF serialize_id(obj) = KeyErrorV THEN obj ELSE serialize_id(obj)
    /\ UNCHANGED appvars

NextSer == serialize_call

SpecSer == InitSer /\ [][NextSer]_vars

(* ------------------------------ properties --------------------------- *)

Min(a, b) == IF a < b THEN a ELSE b
Max(a, b) == IF a > b THEN a ELSE b

Finished(r, op) == r.pc = "done" /\ r.op = op

\* in this step client s gets its response
Finishes(s, op) == req[s].pc # "done" /\ req'[s].pc = "done" /\ req'[s].op = op

StrOf(doc, k) == doc.v[k].v

\* the stored records the filter of the request arguments a matches, and
\* their full sorted sequence
C1_Matching(a) == {i \in 1..Len(store) : Matches(filter_query(a.q, a.status), store[i])}

C1_Full(a) == sort(find(store, filter_query(a.q, a.status)), sort_field(a.sort), direction(a.sort))

C1_FullIsSorted(a) ==
    /\ Len(C1_Full(a)) = Cardinality(C1_Matching(a))
    /\ {C1_Full(a)[k] : k \in 1..Len(C1_Full(a))} = {store[i] : i \in C1_Matching(a)}
    /\ \A k \in 1..(Len(C1_Full(a)) - 1) :
          ~Before(C1_Full(a)[k + 1], C1_Full(a)[k], sort_field(a.sort), direction(a.sort))

C1_PageOf(a) ==
    LET off == (a.page - 1) * a.page_size
        n == Max(0, Min(a.page_size, Len(C1_Full(a)) - off))
    IN  [k \in 1..n |-> serialize_id(C1_Full(a)[off + k])]

(* C1: in every list_orders call, count_documents gives the number of
   stored records matching the filter, and the items of the response are
   the serialized records at positions (page-1)*page_size+1 .. +page_size
   of the matching records in sorted order (fewer at the end, none past
   it), that order holding every matching record once and no key out of
   order; page, page_size and the counted total are returned with them. *)
C1_PageIsSliceOfSorted ==
    [][\A s \in Clients :
         /\ (req[s].pc = "idle" /\ req'[s].pc = "find") =>
               req'[s].total = Cardinality(C1_Matching(req'[s].args))
         /\ (req[s].pc = "find" /\ Finishes(s, "list") /\ req'[s].code = 200) =>
               /\ C1_FullIsSorted(req[s].args)
               /\ req'[s].body.items = C1_PageOf(req[s].args)
               /\ req'[s].body.total = req[s].total
               /\ req'[s].body.page = req[s].args.page
               /\ req'[s].body.page_size = req[s].args.page_size]_vars

\* a second page of size 2 over three matching records: one item, the last
C1_Witness ==
    \E s \in Clients :
        /\ Finished(req[s], "list") /\ req[s].code = 200
        /\ req[s].args.page = 2 /\ req[s].args.page_size = 2
        /\ req[s].args.sort = <<"o","r","d","e","r","_","n","u","m","b","e","r">>
        /\ req[s].body.total = 3
        /\ Len(req[s].body.items) = 1
        /\ req[s].body.items[1].v[K_order_number] = StrV(<<"O","R","D","-","1","0","0","3">>)

\* p occurs in s, letter case aside
RECURSIVE C2_PrefixCI(_, _)
C2_PrefixCI(p, s) ==
    IF p = <<>> THEN TRUE
    ELSE IF s = <<>> THEN FALSE
    ELSE Lower(Head(p)) = Lower(Head(s)) /\ C2_PrefixCI(Tail(p), Tail(s))

C2_ContainsCI(s, p) == \E j \in 1..(Len(s) + 1) : C2_PrefixCI(p, SubSeq(s, j, Len(s)))

C2_ClaimedMatch(q, status, doc) ==
    /\ Truthy(q) =>
          \/ C2_ContainsCI(StrOf(doc, K_order_number), q.v)
          \/ C2_ContainsCI(StrOf(doc, K_customer_name), q.v)
          \/ C2_ContainsCI(StrOf(doc, K_email), q.v)
    /\ Truthy(status) => StrOf(doc, K_status) = status.v

(* C2: the filter matches a record exactly when (q is absent, or q occurs
   as a case-insensitive substring of order_number, customer_name or
   email) and (status is absent, or the record's status equals it); an
   empty parameter is read as absent.  Stated on the count of a list
   request no write has come after. *)
C2_FilterIsSubstringMatch ==
    \A s \in Clients :
        (req[s].pc = "find" /\ ~req[s].raced) =>
            req[s].total = Cardinality({i \in 1..Len(store) :
                C2_ClaimedMatch(req[s].args.q, req[s].args.status, store[i])})

\* the record the id string names: its _id in hex is the id, letter case aside
C3_Named(doc, id) == str(doc.v[K__id]) = [j \in 1..Len(id) |-> Lower(id[j])]

(* C3: the step in which a status update matches an order leaves the
   number of records and every other record as they were, and in the
   matched record changes nothing but status and updated_at, which that
   same step sets to the requested status and to the instant of the
   request. *)
C3_UpdateFrame ==
    [][\A s \in Clients :
         (req[s].pc = "idle" /\ req'[s].op = "update" /\ req'[s].pc = "refetch") =>
            /\ Cardinality({i \in 1..Len(store) : C3_Named(store[i], req'[s].args.order_id)}) = 1
            /\ Len(store') = Len(store)
            /\ \A i \in 1..Len(store) :
                  IF C3_Named(store[i], req'[s].args.order_id)
                  THEN /\ DOMAIN store'[i].v = DOMAIN store[i].v
                       /\ store'[i].v[K_status] = StrV(req'[s].args.status)
                       /\ store'[i].v[K_updated_at] = DtV(clock')
                       /\ \A k \in DOMAIN store[i].v \ {K_status, K_updated_at} :
                             store'[i].v[k] = store[i].v[k]
                  ELSE store'[i] = store[i]]_vars

\* an order updated to "delivered" at an instant after its creation
C3_Witness ==
    \E i \in 1..Len(store) :
        /\ store[i].v[K_status] = StrV(<<"d","e","l","i","v","e","r","e","d">>)
        /\ store[i].v[K_updated_at].v > store[i].v[K_created_at].v
        /\ \E s \in Clients : req[s].pc = "refetch"

\* an id string that is 24 hex digits; one that names a stored record
C4_Parses(id) == Len(id) = OidHexLen /\ \A i \in 1..Len(id) : Lower(id[i]) \in {HexDigits[j] : j \in 1..Len(HexDigits)}

C4_Known(id) == \E i \in 1..Len(store) : str(store[i].v[K__id]) = [j \in 1..Len(id) |-> Lower(id[j])]

C4_Outcome(r) ==
    (db_configured /\ r.pc = "done" /\ r.op \in {"get", "update"}) =>
        /\ ~C4_Parses(r.args.order_id) => (r.code = 400 /\ r.calls = 0)
        /\ (C4_Parses(r.args.order_id) /\ ~r.failed /\ ~C4_Known(r.args.order_id)) => r.code = 404

(* C4: with the store configured, a get_order or update_order_status
   request whose id does not parse ends in 400 without any store call; one
   whose id parses, whose store call did not fail and whose id no record
   has ends in 404; and the step that ends a request in 400 or 404 leaves
   the store as it was. *)
C4_IdDecidesOutcome ==
    [][\A s \in Clients :
         /\ C4_Outcome(req[s])'
         /\ ((Finishes(s, "get") \/ Finishes(s, "update")) /\ req'[s].code \in {400, 404}) =>
               store' = store]_vars

\* an update of a well-formed id no record has, on a store that has records
C4_Witness ==
    \E s \in Clients :
        /\ Finished(req[s], "update") /\ req[s].code = 404
        /\ Len(store) > 0

\* the ids a response holds
C5_Ids(r) ==
    IF r.pc # "done" \/ r.code # 200 THEN {}
    ELSE IF r.op = "list" THEN {StrOf(r.body.items[k], K_id) : k \in 1..Len(r.body.items)}
    ELSE IF r.op \in {"get", "update"} THEN {StrOf(r.body, K_id)}
    ELSE {}

C5_StoredIds == {str(store[i].v[K__id]) : i \in 1..Len(store)}

C5_Shows(body, doc) ==
    /\ DOMAIN body.v = (DOMAIN doc.v \ {K__id}) \cup {K_id}
    /\ \A k \in DOMAIN body.v :
          IF k = K_id THEN body.v[k] = StrV(str(doc.v[K__id]))
          ELSE IF doc.v[k].t = "dt" THEN body.v[k] = StrV(isoformat(doc.v[k].v))
          ELSE body.v[k] = doc.v[k]

(* C5: no step removes a record or changes a record's id, and no two
   records share an id; every id a 200 response holds is the id of a
   stored record; and get_order of the id of a stored record, as the
   responses give it, ends when its store call does not fail in 200 with
   the record's fields as stored: id the string of _id, timestamps in ISO
   form, every other field equal. *)
C5_FetchByReturnedId ==
    [][/\ Len(store') >= Len(store)
       /\ \A i \in 1..Len(store) : store'[i].v[K__id] = store[i].v[K__id]
       /\ \A i, j \in 1..Len(store') : store'[i].v[K__id] = store'[j].v[K__id] => i = j
       /\ \A s \in Clients :
             /\ C5_Ids(req[s])' \subseteq C5_StoredIds'
             /\ (Finishes(s, "get") /\ ~req'[s].failed /\ req'[s].args.order_id \in C5_StoredIds) =>
                   /\ req'[s].code = 200
                   /\ \E i \in 1..Len(store) :
                         /\ str(store[i].v[K__id]) = req'[s].args.order_id
                         /\ C5_Shows(req'[s].body, store[i])]_vars

\* a fetch, after a status update, of the updated order
C5_Witness ==
    \E s \in Clients :
        /\ Finished(req[s], "get") /\ req[s].code = 200
        /\ req[s].args.order_id \in C5_StoredIds
        /\ req[s].body.v[K_status] = StrV(<<"d","e","l","i","v","e","r","e","d">>)
        /\ req[s].body.v[K_updated_at] # req[s].body.v[K_created_at]

\* an ObjectId or a datetime is somewhere in val
RECURSIVE C6_HasRaw(_)
C6_HasRaw(val) ==
    \/ val.t \in {"oid", "dt"}
    \/ val.t = "list" /\ \E i \in 1..Len(val.v) : C6_HasRaw(val.v[i])
    \/ val.t = "dict" /\ \E k \in DOMAIN val.v : C6_HasRaw(val.v[k])

(* C6: after serialize_id of a record that is not absent, no ObjectId and
   no datetime is left anywhere in it, nested lists and dicts included,
   _id is gone and id is a str. *)
C6_NothingRawLeft ==
    (ncalls = 1 /\ ret[1] # KeyErrorV /\ ~Falsy(ret[1])) =>
        /\ ~C6_HasRaw(ret[1])
        /\ K__id \notin DOMAIN ret[1].v
        /\ ret[1].v[K_id].t = "str"

(* C7: a second serialize_id call on the object of the first returns
   without raising, and returns what the first returned. *)
C7_SecondCallSame ==
    ncalls = 2 => (ret[2] # KeyErrorV /\ ret[2] = ret[1])

(* C8: a request one of whose store calls raised ends in 500. *)
C8_StoreFailureIs500 ==
    \A s \in Clients : (req[s].pc = "done" /\ req[s].failed) => req[s].code = 500

(* C9 as stated: the status in the 200 response of a status update is the
   status the request asked for, whatever other updates run beside it. *)
C9_ResponseHasRequestedStatus ==
    \A s \in Clients :
        (Finished(req[s], "update") /\ req[s].code = 200) =>
            req[s].body.v[K_status] = StrV(req[s].args.status)

\* the place in the store of the record with the id string id
C9_StoredAs(id) == CHOOSE i \in 1..Len(store) : str(store[i].v[K__id]) = id

(* C9 as amended: the 200 response of a status update shows the record as
   stored at the re-fetch; its status is the requested one when no other
   update of the same order was applied between the request's write and
   its re-fetch; and the stored status of every order is the status of the
   update applied to it last. *)
C9_ResponseShowsStored ==
    /\ \A s \in Clients :
          (Finished(req[s], "update") /\ req[s].code = 200) =>
              /\ req[s].body.v[K_status] = store[C9_StoredAs(StrOf(req[s].body, K_id))].v[K_status]
              /\ ~req[s].raced => req[s].body.v[K_status] = StrV(req[s].args.status)
    /\ \A i \in 1..Len(store) :
          str(store[i].v[K__id]) \in DOMAIN lastWrite =>
              store[i].v[K_status] = StrV(lastWrite[str(store[i].v[K__id])])

\* the response of the second of two updates of one order, nothing between
\* its write and its re-fetch
C9_Witness ==
    \E s \in Clients :
        /\ Finished(req[s], "update") /\ req[s].code = 200 /\ ~req[s].raced
        /\ updates = 2
        /\ req[s].body.v[K_status] = StrV(<<"s","h","i","p","p","e","d">>)

\* min(page_size, max(0, total - (page-1)*page_size)) of a list response
C10_Count(r) == Min(r.args.page_size, Max(0, r.body.total - (r.args.page - 1) * r.args.page_size))

(* C10 as stated: in every 200 response of list_orders the number of items
   is min(page_size, max(0, total - (page-1)*page_size)). *)
C10_ItemsFitTotal ==
    \A s \in Clients :
        (Finished(req[s], "list") /\ req[s].code = 200) =>
            Len(req[s].body.items) = C10_Count(req[s])

(* C10 as amended: that holds of a response when no write was applied to
   the store between the request's count and its find; then, with no
   filter, page 1 and page_size >= total, the items are the stored
   orders, each once. *)
C10_ItemsFitTotalUnlessRaced ==
    \A s \in Clients :
        (Finished(req[s], "list") /\ req[s].code = 200 /\ ~req[s].raced) =>
            /\ Len(req[s].body.items) = C10_Count(req[s])
            /\ (/\ ~Truthy(req[s].args.q) /\ ~Truthy(req[s].args.status)
                /\ req[s].args.page = 1
                /\ req[s].args.page_size >= req[s].body.total) =>
                  /\ Len(req[s].body.items) = Len(store)
                  /\ {StrOf(req[s].body.items[k], K_id) : k \in 1..Len(req[s].body.items)}
                        = {str(store[i].v[K__id]) : i \in 1..Len(store)}

\* an unfiltered first page of size 100 over the three seeded orders
C10_Witness ==
    \E s \in Clients :
        /\ Finished(req[s], "list") /\ req[s].code = 200 /\ ~req[s].raced
        /\ ~Truthy(req[s].args.q) /\ ~Truthy(req[s].args.status)
        /\ req[s].args.page = 1 /\ req[s].args.page_size = 100
        /\ Len(req[s].body.items) = 3

====
